---- MODULE Spec2Model ----
(***************************************************************************)
(* IndiSign backend (src/backend/main.py): a sign-image table loaded at    *)
(* start-up, a video composer (create_sign_video), a speech transcriber    *)
(* (speech_to_text) and the three HTTP handlers text_to_sign,              *)
(* speech_to_sign and get_video.                                           *)
(*                                                                         *)
(* Text is a sequence of one-character strings.  An image is a record      *)
(* [sign, label, weight]: which sign it shows, the label drawn on it, and  *)
(* its blend weight in units of 1/fade_frames (0 is the all-zero image).   *)
(* A file name is the pair <<second, suffix>> of main.py:91.               *)
(*                                                                         *)
(* The handlers run in worker threads, so calls overlap: a call is a       *)
(* sequence of steps (temporary file, re-encoding, recognition, the video  *)
(* writer's opening, one step per frame written, the return), and the      *)
(* steps of two calls interleave.                                          *)
(***************************************************************************)
EXTENDS Integers, Sequences, FiniteSets, TLC

(* ------------------------------ bounds --------------------------------- *)
MaxLen == 2
MaxReq == 2
MaxClock == 1

(* ---------------------------- characters ------------------------------- *)
\* The characters texts are drawn from: two letters of the a-z0-9 mapping,
\* an upper-case letter, the space, a whitespace that is not the space, and
\* a punctuation mark.
Chars == {"a", "b", "A", " ", "\t", "!"}

\* str.lower() on one character
Lower(c) == IF c = "A" THEN "a" ELSE c

\* str.upper() on one character, as used for the label
Upper(c) == CASE c = "a" -> "A" [] c = "b" -> "B" [] OTHER -> c

lower(s) == [i \in 1..Len(s) |-> Lower(s[i])]

isalnum(c) == c \in {"a", "b", "A"}

isspace(c) == c \in {" ", "\t"}

RECURSIVE lstrip(_)
lstrip(s) == IF Len(s) > 0 /\ isspace(Head(s)) THEN lstrip(Tail(s)) ELSE s

RECURSIVE rstrip(_)
rstrip(s) ==
    IF Len(s) > 0 /\ isspace(s[Len(s)]) THEN rstrip(SubSeq(s, 1, Len(s) - 1)) ELSE s

\* str.strip()
strip(s) == rstrip(lstrip(s))

(* ------------------------------ images --------------------------------- *)
char_frames == 6
space_frames == 3
fade_frames == 2

\* np.zeros((h, w, 3)): the all-zero frame
black == [sign |-> "", label |-> "", weight |-> 0]

\* cv2.resize(cv2.imread(<c>.jpg), (480, 640)): the stored image of sign c
imread(c) == [sign |-> c, label |-> "", weight |-> fade_frames]

\* frame = sign_images[c].copy() followed by the two cv2.putText calls:
\* the label is drawn on the copy
labeled(img, c) == [img EXCEPT !.label = Upper(c)]

\* cv2.addWeighted(black, 1 - alpha, frame, alpha, 0) with alpha = num/fade_frames
addWeighted(frame, num) ==
    IF num = 0 THEN black
    ELSE IF num = fade_frames THEN frame
    ELSE [frame EXCEPT !.weight = num]

\* The keys of the mapping built by load_sign_images (a-z0-9 in the source).
mappings == {"a", "b"}

DiskStates == {"missing", "unreadable", "ok"}

\* load_sign_images: a key is stored when its file exists and cv2.imread
\* returns an image.
load_sign_images(disk) ==
    [c \in {k \in mappings : disk[k] = "ok"} |-> imread(c)]

(* --------------------------- create_sign_video ------------------------- *)
codecs_to_try == <<"avc1", "H264", "X264", "mp4v">>

Codecs == {codecs_to_try[i] : i \in 1..Len(codecs_to_try)}

Ev(e, c) == [ev |-> e, codec |-> c]

normalize_upper(text) == SelectSeq(text, LAMBDA c : isalnum(c) \/ isspace(c))

\* clean_text = ''.join(c for c in text.lower() if c.isalnum() or c.isspace())
normalize(text) == SelectSeq(lower(text), LAMBDA c : isalnum(c) \/ isspace(c))

RECURSIVE open_writer_nobreak(_, _)
open_writer_nobreak(i, opens) ==
    IF i > Len(codecs_to_try) THEN [used |-> 0, log |-> <<>>]
    ELSE LET r == open_writer_nobreak(i + 1, opens)
             c == codecs_to_try[i]
         IN  IF c \in opens
             THEN [used |-> IF r.used = 0 THEN i ELSE r.used,
                   log |-> <<Ev("opened", c)>> \o r.log]
             ELSE [used |-> r.used,
                   log |-> <<Ev("failed", c), Ev("release", c)>> \o r.log]

\* The codec loop, from position i of codecs_to_try: the writer is created
\* with codec i; if it opened the loop breaks, otherwise it is released and
\* the next codec is tried.  used = 0 when no writer opened.
RECURSIVE open_writer(_, _)
open_writer(i, opens) ==
    IF i > Len(codecs_to_try) THEN [used |-> 0, log |-> <<>>]
    ELSE LET c == codecs_to_try[i]
         IN  IF c \in opens
             THEN [used |-> i, log |-> <<Ev("opened", c)>>]
             ELSE LET r == open_writer(i + 1, opens)
                  IN  [used |-> r.used,
                       log |-> <<Ev("failed", c), Ev("release", c)>> \o r.log]

FadeIn(frame) == [k \in 1..fade_frames |-> addWeighted(frame, k - 1)]

Hold(frame) == [k \in 1..(char_frames - 2 * fade_frames) |-> frame]

FadeOut(frame) == [k \in 1..fade_frames |-> addWeighted(frame, fade_frames - (k - 1))]

HoldLast(frame) == [k \in 1..fade_frames |-> frame]

char_frames_of_nolast(i, clean_text, images) ==
    LET c == clean_text[i + 1]
    IN  IF c = " " THEN [k \in 1..space_frames |-> black]
        ELSE IF c \in DOMAIN images
        THEN LET frame == labeled(images[c], c)
             IN  FadeIn(frame) \o Hold(frame)
                 \o (IF i < Len(clean_text) - 1 THEN FadeOut(frame) ELSE <<>>)
        ELSE <<>>

char_frames_of_fadefirst(i, clean_text, images) ==
    LET c == clean_text[i + 1]
    IN  IF c = " " THEN [k \in 1..space_frames |-> black]
        ELSE IF c \in DOMAIN images
        THEN LET frame == labeled(images[c], c)
             IN  Hold(frame) \o FadeIn(frame)
                 \o (IF i < Len(clean_text) - 1 THEN FadeOut(frame) ELSE HoldLast(frame))
        ELSE <<>>

\* The body of `for i, c in enumerate(clean_text)`: the frames written for
\* the character at index i (0-based, as in the source).
char_frames_of(i, clean_text, images) ==
    LET c == clean_text[i + 1]
    IN  IF c = " " THEN [k \in 1..space_frames |-> black]
        ELSE IF c \in DOMAIN images
        THEN LET frame == labeled(images[c], c)
             IN  FadeIn(frame) \o Hold(frame)
                 \o (IF i < Len(clean_text) - 1 THEN FadeOut(frame) ELSE HoldLast(frame))
        ELSE <<>>

\* The frames written by the whole loop, from index i on.
RECURSIVE write_frames(_, _, _)
write_frames(i, clean_text, images) ==
    IF i >= Len(clean_text) THEN <<>>
    ELSE char_frames_of(i, clean_text, images) \o write_frames(i + 1, clean_text, images)

put_label_inplace(images, c) ==
    [frame |-> labeled(images[c], c),
     images |-> [images EXCEPT ![c] = labeled(images[c], c)]]

\* frame = sign_images[c].copy(); cv2.putText(frame, ...): the frame that
\* carries the label and the table afterwards.  The label goes on a copy,
\* so the stored image is left as it was.
put_label(images, c) == [frame |-> labeled(images[c], c), images |-> images]

\* uuid.uuid4().hex[:8]: the first eight hex digits of the identifier
hex8(uid) == uid[1]

\* datetime.now().strftime('%Y%m%d_%H%M%S'): the instant cut to its second
\* (the clock counts half seconds, so two instants can share a second)
strftime(now) == now \div 2

NoFile == <<>>

Raise(msg, clean, log) ==
    [ok |-> FALSE, error |-> msg, filename |-> NoFile, clean |-> clean,
     log |-> log, frames |-> <<>>, created |-> FALSE]

\* filename = f"sign_{timestamp}_{uuid8}.mp4"
make_filename(now, uid) == <<strftime(now), hex8(uid)>>

\* create_sign_video(text), with the table, the set of codecs whose writer
\* opens, the current instant and the uuid4 value as explicit inputs.
\* created: a writer opened, which puts a file at the returned path; frames:
\* what the frame loop writes to it, one writer.write at a time.
create_sign_video(text, images, opens, now, uid) ==
    LET clean_text == normalize(text)
        w == open_writer(1, opens)
    IN  IF DOMAIN images = {} THEN Raise("Sign images not loaded", <<>>, <<>>)
        ELSE IF Len(strip(clean_text)) = 0
        THEN Raise("No valid characters in text", clean_text, <<>>)
        ELSE IF w.used = 0
        THEN Raise("Could not create video file with any codec", clean_text, w.log)
        ELSE [ok |-> TRUE, error |-> "", filename |-> make_filename(now, uid),
              clean |-> clean_text,
              log |-> w.log \o <<Ev("release", codecs_to_try[w.used])>>,
              frames |-> write_frames(0, clean_text, images), created |-> TRUE]

(* ----------------------------- speech_to_text -------------------------- *)
\* The temporary audio paths of a request: the upload written by
\* speech_to_sign and audio_file_path + "_fixed.wav" written by speech_to_text.
UploadPath(id) == [id |-> id, kind |-> "upload"]

wav_path(id) == [id |-> id, kind |-> "fixed"]

\* What the libraries and the recognition service do in one request.
\*   upload: tmp.write(audio_file.file.read())     "ok" | "error"
\*   decode: AudioSegment.from_file / export        "ok" | "decode_error" | "export_error"
\*   read:   sr.AudioFile / adjust / record         "ok" | "error"
\*   recog:  recognize_google                       "ok" | "unknown" | "request_error"
\*   heard:  the text recognize_google returns
\* A step that is not reached has no outcome: the fields after the first
\* failure are left at "ok" and heard at the empty text.
Heard == {<<>>, <<" ">>, <<"A">>, <<"b", " ">>}

Env(u, d, r, g, h) == [upload |-> u, decode |-> d, read |-> r, recog |-> g, heard |-> h]

Envs ==
    {Env("error", "ok", "ok", "ok", <<>>), Env("ok", "decode_error", "ok", "ok", <<>>),
     Env("ok", "export_error", "ok", "ok", <<>>), Env("ok", "ok", "error", "ok", <<>>),
     Env("ok", "ok", "ok", "unknown", <<>>), Env("ok", "ok", "ok", "request_error", <<>>)}
    \cup {Env("ok", "ok", "ok", "ok", h) : h \in Heard}

SttResult(ok, err, text, written, unlinked) ==
    [ok |-> ok, error |-> err, text |-> text, written |-> written, unlinked |-> unlinked]

\* speech_to_text(audio_file_path): written are the files it creates,
\* unlinked the files its finally clause removes.  The finally clause covers
\* only the recognize_google call (main.py:64-73).
speech_to_text(id, env) ==
    LET wav == wav_path(id)
    IN  IF env.decode = "decode_error"
        THEN SttResult(FALSE, "Decoding failed", <<>>, {}, {})
        ELSE IF env.decode = "export_error"
        THEN SttResult(FALSE, "Export failed", <<>>, {wav}, {})
        ELSE IF env.read = "error"
        THEN SttResult(FALSE, "Audio file could not be read", <<>>, {wav}, {})
        ELSE IF env.recog = "unknown"
        THEN SttResult(FALSE, "Could not understand audio", <<>>, {wav}, {wav})
        ELSE IF env.recog = "request_error"
        THEN SttResult(FALSE, "Google Speech Recognition error", <<>>, {wav}, {wav})
        ELSE SttResult(TRUE, "", strip(lower(env.heard)), {wav}, {wav})

(* ------------------------------ HTTP layer ----------------------------- *)
NoCall ==
    [ok |-> FALSE, error |-> "not called", filename |-> NoFile, clean |-> <<>>,
     log |-> <<>>, frames |-> <<>>, created |-> FALSE]

\* A response.  handled: the handler produced it (a return value or an
\* HTTPException it raised); when FALSE an exception left the handler and
\* exc names it.  composed: create_sign_video was invoked; csv: its result.
\* stt: "none" (speech_to_text not reached), "ok" or "error".
Response(op, status, detail, video_file, text, handled, exc, composed, csv, stt) ==
    [op |-> op, status |-> status, detail |-> detail, video_file |-> video_file,
     text |-> text, handled |-> handled, exc |-> exc, composed |-> composed,
     csv |-> csv, stt |-> stt]

NoResponse == Response("none", 0, "", NoFile, <<>>, TRUE, "", FALSE, NoCall, "none")

\* A JSON value of the body's "text" key.
Str(s) == [type |-> "str", val |-> s]

NonStrings == {[type |-> "int", val |-> <<>>], [type |-> "null", val |-> <<>>]}

\* data.get("text", "")
get_text(data) == IF data.has_text THEN data.text ELSE Str(<<>>)

\* text_to_sign(data): .strip() exists only on str; on any other JSON value
\* the attribute lookup raises before the try block is entered.
text_to_sign(data, images, opens, now, uid) ==
    LET v == get_text(data)
        text == strip(v.val)
        r == create_sign_video(text, images, opens, now, uid)
    IN  IF v.type # "str"
        THEN Response("text", 500, "Internal Server Error", NoFile, <<>>, FALSE,
                      "AttributeError", FALSE, NoCall, "none")
        ELSE IF Len(text) = 0
        THEN Response("text", 400, "Text is required", NoFile, <<>>, TRUE, "",
                      FALSE, NoCall, "none")
        ELSE IF r.ok
        THEN Response("text", 200, "", r.filename, text, TRUE, "", TRUE, r, "none")
        ELSE Response("text", 500, r.error, NoFile, <<>>, TRUE, "", TRUE, r, "none")

speech_to_sign_noguard(id, env, images, opens, now, uid) ==
    LET t == speech_to_text(id, env)
        r == create_sign_video(t.text, images, opens, now, uid)
        up == UploadPath(id)
        resp == IF env.upload = "error"
                THEN Response("speech", 500, "Upload failed", NoFile, <<>>, TRUE, "",
                              FALSE, NoCall, "none")
                ELSE IF r.ok
                THEN Response("speech", 200, "", r.filename, t.text, TRUE, "", TRUE, r,
                              IF t.ok THEN "ok" ELSE "error")
                ELSE Response("speech", 500, r.error, NoFile, <<>>, TRUE, "", TRUE, r,
                              IF t.ok THEN "ok" ELSE "error")
    IN  [resp |-> resp,
         written |-> {up} \cup (IF env.upload = "ok" THEN t.written ELSE {}),
         unlinked |-> IF env.upload = "ok" THEN {up} \cup t.unlinked ELSE {}]

\* speech_to_sign(audio_file): resp is the response, written the temporary
\* files the request creates, unlinked those it removes.  tmp_path is set
\* only after the upload was written, so the finally clause removes the
\* upload only then.
speech_to_sign(id, env, images, opens, now, uid) ==
    LET t == speech_to_text(id, env)
        r == create_sign_video(t.text, images, opens, now, uid)
        up == UploadPath(id)
        resp == IF env.upload = "error"
                THEN Response("speech", 500, "Upload failed", NoFile, <<>>, TRUE, "",
                              FALSE, NoCall, "none")
                ELSE IF ~t.ok
                THEN Response("speech", 500, t.error, NoFile, <<>>, TRUE, "",
                              FALSE, NoCall, "error")
                ELSE IF Len(t.text) = 0
                THEN Response("speech", 500, "No speech detected", NoFile, <<>>, TRUE, "",
                              FALSE, NoCall, "ok")
                ELSE IF r.ok
                THEN Response("speech", 200, "", r.filename, t.text, TRUE, "", TRUE, r, "ok")
                ELSE Response("speech", 500, r.error, NoFile, <<>>, TRUE, "", TRUE, r, "ok")
    IN  [resp |-> resp,
         written |-> {up} \cup (IF env.upload = "ok" THEN t.written ELSE {}),
         unlinked |-> IF env.upload = "ok" THEN {up} \cup t.unlinked ELSE {}]

\* get_video(video_filename) against the output folder
get_video(name, folder) ==
    IF name \notin DOMAIN folder
    THEN Response("video", 404, "Video not found", NoFile, <<>>, TRUE, "", FALSE,
                  NoCall, "none")
    ELSE Response("video", 200, "", name, <<>>, TRUE, "", FALSE, NoCall, "none")

(* -------------------------------- state -------------------------------- *)
VARIABLES
    sign_images,  \* the global table: loaded character -> stored image
    files,        \* OUTPUT_FOLDER: file name -> the frames the file holds
    tmpfiles,     \* the temporary audio files on disk
    clock,        \* the current instant, in ticks
    nreq,         \* calls started so far
    threads,      \* the calls in progress: position and locals of each
    req,          \* the latest request that was answered
    args,         \* the arguments of its create_sign_video call
    resp,         \* its response
    history,      \* the create_sign_video calls that returned a name, in order
    got           \* the answer of get_video, when the latest step was one

vars == <<sign_images, files, tmpfiles, clock, nreq, threads, req, args, resp, history,
          got>>

NoArgs == [text |-> <<>>, opens |-> {}, called |-> FALSE]

Args(text, opens) == [text |-> text, opens |-> opens, called |-> TRUE]

Disks == [mappings -> DiskStates]

\* uuid4 values, as <<first eight hex digits, the other twenty-four>>
Uuids == {<<1, 1>>, <<1, 2>>, <<2, 1>>}

RECURSIVE SeqsUpTo(_, _)
SeqsUpTo(S, n) ==
    IF n = 0 THEN {<<>>}
    ELSE LET shorter == SeqsUpTo(S, n - 1)
         IN  shorter \cup {Append(s, c) : s \in {t \in shorter : Len(t) = n - 1}, c \in S}

Texts == SeqsUpTo(Chars, MaxLen)

EmptyFolder == [n \in {} |-> <<>>]

\* A video a previous run of the program left in OUTPUT_FOLDER.
OldFolder ==
    [n \in {make_filename(0, <<1, 1>>)} |->
        write_frames(0, <<"a">>, load_sign_images([c \in mappings |-> "ok"]))]

\* os.makedirs(OUTPUT_FOLDER, exist_ok=True) keeps what the folder holds.
Folders == {EmptyFolder, OldFolder}

Request(kind, data, env, name) == [kind |-> kind, data |-> data, env |-> env, name |-> name]

NoBody == [has_text |-> FALSE, text |-> Str(<<>>), speed |-> FALSE]

NoEnv == [upload |-> "ok", decode |-> "ok", read |-> "ok", recog |-> "ok", heard |-> <<>>]

NoRequest == Request("none", NoBody, NoEnv, NoFile)

\* The handlers are plain `def` functions: each request runs in a thread of
\* the worker pool, so the calls overlap.  A thread is known by the number
\* of the call it runs.
Workers == {1, 2}

Running(pc, rq, ar, out, id) ==
    [pc |-> pc, rq |-> rq, ar |-> ar, out |-> out, i |-> 0, k |-> 0, id |-> id]

FreeWorker == Cardinality(threads) < Cardinality(Workers)

\* A region of a file no writer has filled.
gap == [sign |-> "", label |-> "", weight |-> 0 - 1]

\* cv2.VideoWriter(path, ...) that opens: the file at path is created, or
\* cut to length zero when it exists.
OpenFile(folder, name) ==
    [n \in DOMAIN folder \cup {name} |-> IF n = name THEN <<>> ELSE folder[n]]

\* writer.write(frame) of a writer that has written p frames: the frame goes
\* to the writer's own position in the file.
WriteAt(content, p, f) ==
    [j \in 1..(IF Len(content) > p THEN Len(content) ELSE p + 1) |->
        IF j = p + 1 THEN f ELSE IF j <= Len(content) THEN content[j] ELSE gap]

Record(h, r) ==
    IF r.ok THEN Append(h, [filename |-> r.filename, frames |-> r.frames]) ELSE h

\* The state after the module is imported: load_sign_images() has run
\* (main.py:159) on the image files of disk, and the output folder is as it
\* was found.
Startup(disk) ==
    /\ sign_images = load_sign_images(disk)
    /\ files \in Folders
    /\ tmpfiles = {}
    /\ clock = 0
    /\ nreq = 0
    /\ threads = {}
    /\ req = NoRequest
    /\ args = NoArgs
    /\ resp = NoResponse
    /\ history = <<>>
    /\ got = NoResponse

\* A call ends with response out.
Answer(rq, ar, out) ==
    /\ req' = rq
    /\ args' = ar
    /\ resp' = out
    /\ history' = Record(history, out.csv)

\* create_sign_video up to the frame loop (main.py:76-114), in the thread
\* that was `was` (none for a call that starts): it raises, or its writer
\* has opened the file and the loop is about to start.
EnterLoop(was, rq, ar, out, id) ==
    IF out.csv.created
    THEN /\ files' = OpenFile(files, out.csv.filename)
         /\ threads' = (threads \ was)
                       \cup {Running("write", rq, ar, [out EXCEPT !.csv.frames = <<>>], id)}
         /\ UNCHANGED <<req, args, resp, history>>
    ELSE /\ files' = files
         /\ threads' = threads \ was
         /\ Answer(rq, ar, out)

\* One pass of the frame loop's innermost statement: the next
\* writer.write(frame) of character i, or the move to character i + 1.
WriteFrame(th) ==
    LET clean_text == th.out.csv.clean
        c == clean_text[th.i + 1]
        fr == char_frames_of(th.i, clean_text, sign_images)
        last == th.k + 1 >= Len(fr)
    IN  /\ th.pc = "write"
        /\ th.i < Len(clean_text)
        /\ IF Len(fr) = 0
           THEN /\ threads' = (threads \ {th}) \cup {[th EXCEPT !.i = th.i + 1]}
                /\ UNCHANGED <<files, sign_images>>
           ELSE /\ files' = [files EXCEPT ![th.out.csv.filename] =
                               WriteAt(@, Len(th.out.csv.frames), fr[th.k + 1])]
                /\ threads' = (threads \ {th}) \cup
                                {[th EXCEPT !.out.csv.frames = Append(@, fr[th.k + 1]),
                                            !.i = IF last THEN th.i + 1 ELSE th.i,
                                            !.k = IF last THEN 0 ELSE th.k + 1]}
                /\ sign_images' = IF th.k = 0 /\ c # " "
                                  THEN put_label(sign_images, c).images
                                  ELSE sign_images
        /\ got' = NoResponse
        /\ UNCHANGED <<tmpfiles, clock, nreq, req, args, resp, history>>

Write == \E th \in threads : WriteFrame(th)

\* The loop is over: writer.release(), the name is returned, and the handler
\* answers; speech_to_sign's finally clause removes the upload.
ReturnName(th) ==
    /\ th.pc = "write"
    /\ th.i >= Len(th.out.csv.clean)
    /\ Answer(th.rq, th.ar, th.out)
    /\ threads' = threads \ {th}
    /\ tmpfiles' = IF th.rq.kind = "speech" THEN tmpfiles \ {UploadPath(th.id)}
                   ELSE tmpfiles
    /\ got' = NoResponse
    /\ UNCHANGED <<sign_images, files, clock, nreq>>

Return == \E th \in threads : ReturnName(th)

(* ------------------- specification of the composer --------------------- *)
\* The calls that run next to another call, or in a folder that holds a
\* video already, draw their arguments from this set.
PairTexts == {<<"a">>, <<"b">>}

Crowded == nreq > 0 \/ files # EmptyFolder

\* The same for a server whose signs folder lacks some of the images.
Narrow == Crowded \/ DOMAIN sign_images \notin {{}, mappings}

\* A call of create_sign_video on any text, any set of working codecs.
Compose ==
    /\ nreq < MaxReq
    /\ FreeWorker
    /\ \A th \in threads : th.ar.text \in PairTexts /\ th.ar.opens = Codecs
    /\ args.called => (args.text \in PairTexts /\ args.opens = Codecs)
    /\ \E uid \in Uuids, text \in (IF Crowded THEN PairTexts ELSE Texts),
          opens \in (IF Crowded THEN {Codecs} ELSE SUBSET Codecs) :
         LET r == create_sign_video(text, sign_images, opens, clock, uid)
             out == Response("compose", 0, r.error, r.filename, text, TRUE, "",
                             TRUE, r, "none")
         IN  EnterLoop({}, Request("compose", NoBody, NoEnv, NoFile),
                       Args(text, opens), out, nreq + 1)
    /\ nreq' = nreq + 1
    /\ got' = NoResponse
    /\ UNCHANGED <<sign_images, tmpfiles, clock>>

InitCompose == \E disk \in Disks : Startup(disk)

NextCompose == Compose \/ Write \/ Return

SpecCompose == InitCompose /\ [][NextCompose]_vars

(* -------------------- specification of the server ---------------------- *)
BodyTexts == {<<>>, <<" ">>, <<"!">>, <<"a">>, <<"b">>, <<" ", "A", "!">>}

Body(h, v, sp) == [has_text |-> h, text |-> v, speed |-> sp]

\* JSON-object bodies: the text key absent, a string, or another JSON
\* value, and with the extra key "speed" of test_api.py.
Bodies ==
    {Body(TRUE, Str(t), FALSE) : t \in BodyTexts}
    \cup {Body(TRUE, v, FALSE) : v \in NonStrings}
    \cup {Body(FALSE, Str(<<>>), FALSE), Body(FALSE, Str(<<>>), TRUE),
          Body(TRUE, Str(<<"a">>), TRUE)}

OpenSets == {Codecs, {}}

\* The requests that arrive after another request, or at a folder that
\* holds a video already, draw their inputs from these sets.
PairBodies == {Body(TRUE, Str(<<"a">>), FALSE), Body(TRUE, Str(<<"b">>), FALSE)}

PairEnvs ==
    {Env("ok", "ok", "error", "ok", <<>>), Env("ok", "ok", "ok", "unknown", <<>>),
     Env("ok", "ok", "ok", "ok", <<"A">>)}

\* The requests that arrive after two others are text requests that do not
\* reach the frame loop.
LateBodies == {Body(TRUE, Str(<<"!">>), FALSE)}

Late == nreq > 1

\* The names asked of get_video.
Names == {make_filename(0, <<1, 1>>), make_filename(0, <<2, 1>>)}

Tick ==
    /\ clock < MaxClock
    /\ clock' = clock + 1
    /\ got' = NoResponse
    /\ UNCHANGED <<sign_images, files, tmpfiles, nreq, threads, req, args, resp, history>>

\* text_to_sign from the request to the frame loop of create_sign_video.
TextToSign ==
    /\ nreq < MaxReq
    /\ FreeWorker
    /\ \E uid \in Uuids,
          data \in (IF Late THEN LateBodies ELSE IF Narrow THEN PairBodies ELSE Bodies),
          opens \in (IF Narrow THEN {Codecs} ELSE OpenSets) :
         LET out == text_to_sign(data, sign_images, opens, clock, uid)
         IN  EnterLoop({}, Request("text", data, NoEnv, NoFile),
                       IF out.composed THEN Args(strip(get_text(data).val), opens)
                       ELSE NoArgs,
                       out, nreq + 1)
    /\ nreq' = nreq + 1
    /\ got' = NoResponse
    /\ UNCHANGED <<sign_images, tmpfiles, clock>>

\* speech_to_sign, main.py:390-394: NamedTemporaryFile creates the
\* temporary file, with a name of its own.
SpeechToSign ==
    /\ nreq < MaxReq
    /\ FreeWorker
    /\ ~Late
    /\ \E env \in (IF Narrow THEN PairEnvs ELSE Envs) :
         /\ tmpfiles' = tmpfiles \cup {UploadPath(nreq + 1)}
         /\ threads' = threads \cup
                         {Running("upload", Request("speech", NoBody, env, NoFile),
                                  NoArgs, NoResponse, nreq + 1)}
    /\ nreq' = nreq + 1
    /\ got' = NoResponse
    /\ UNCHANGED <<sign_images, files, clock, req, args, resp, history>>

\* speech_to_sign's finally clause, main.py:405-407: tmp_path is set once the
\* upload was written, and only then is the temporary file removed.
RemoveUpload(th) == IF th.rq.env.upload = "ok" THEN {UploadPath(th.id)} ELSE {}

\* speech_to_sign, main.py:401-407, for an exception raised before
\* create_sign_video is called: it is logged, the HTTPException is raised
\* and the finally clause runs.
GiveUp(th) ==
    /\ tmpfiles' = tmpfiles \ RemoveUpload(th)
    /\ threads' = threads \ {th}
    /\ Answer(th.rq, NoArgs,
              speech_to_sign(th.id, th.rq.env, sign_images, {}, clock, <<1, 1>>).resp)

\* speech_to_sign, main.py:395-396, and speech_to_text, main.py:55-58: the
\* upload is read into the temporary file, decoded and exported to wav_path.
\* A failed read or decoding changes no file and goes to the except clause;
\* a failed export has created wav_path before it raises.
ReencodeAudio(th) ==
    LET env == th.rq.env
    IN  /\ th.pc = "upload"
        /\ IF env.upload # "ok" \/ env.decode = "decode_error"
           THEN GiveUp(th)
           ELSE /\ tmpfiles' = tmpfiles \cup speech_to_text(th.id, env).written
                /\ threads' = (threads \ {th})
                              \cup {[th EXCEPT !.pc = IF env.decode = "ok" THEN "recog"
                                                      ELSE "failed"]}
                /\ UNCHANGED <<req, args, resp, history>>
        /\ got' = NoResponse
        /\ UNCHANGED <<sign_images, files, clock, nreq>>

Reencode == \E th \in threads : ReencodeAudio(th)

\* speech_to_text, main.py:60-73: the wav file is read back; a failure there
\* is outside the try block, leaves wav_path and goes to the except clause of
\* speech_to_sign.  Otherwise recognize_google answers or raises, and the
\* finally clause removes wav_path.
RecognizeAudio(th) ==
    LET env == th.rq.env
        t == speech_to_text(th.id, env)
    IN  /\ th.pc = "recog"
        /\ IF env.read # "ok"
           THEN GiveUp(th)
           ELSE /\ tmpfiles' = tmpfiles \ t.unlinked
                /\ threads' = (threads \ {th})
                              \cup {[th EXCEPT !.pc = IF t.ok THEN "compose" ELSE "failed"]}
                /\ UNCHANGED <<req, args, resp, history>>
        /\ got' = NoResponse
        /\ UNCHANGED <<sign_images, files, clock, nreq>>

Recognize == \E th \in threads : RecognizeAudio(th)

\* speech_to_sign, main.py:401-407, after an exception of speech_to_text
\* that left the files changed.
HandleError(th) ==
    /\ th.pc = "failed"
    /\ GiveUp(th)
    /\ got' = NoResponse
    /\ UNCHANGED <<sign_images, files, clock, nreq>>

Fail == \E th \in threads : HandleError(th)

\* speech_to_sign, main.py:398-400, with create_sign_video up to the frame
\* loop (main.py:76-114): an empty text is refused; any other text goes to
\* create_sign_video, which raises or opens its writer.  A call that ends
\* here runs the finally clause.
StartVideo(th) ==
    LET env == th.rq.env
    IN  /\ th.pc = "compose"
        /\ \E opens \in (IF env \in PairEnvs THEN {Codecs} ELSE OpenSets), uid \in Uuids :
             LET r == speech_to_sign(th.id, env, sign_images, opens, clock, uid)
             IN  /\ tmpfiles' = IF r.resp.csv.created THEN tmpfiles
                                ELSE tmpfiles \ RemoveUpload(th)
                 /\ EnterLoop({th}, th.rq,
                              IF r.resp.composed
                              THEN Args(speech_to_text(th.id, env).text, opens)
                              ELSE NoArgs,
                              r.resp, th.id)
        /\ got' = NoResponse
        /\ UNCHANGED <<sign_images, clock, nreq>>

Start == \E th \in threads : StartVideo(th)

\* get_video changes nothing; got holds its answer until the next step.
GetVideo ==
    /\ \E name \in Names : got' = [get_video(name, files) EXCEPT !.text = name]
    /\ UNCHANGED <<sign_images, files, tmpfiles, clock, nreq, threads, req, args, resp,
                   history>>

Init == \E disk \in Disks : Startup(disk)

Next ==
    Tick \/ TextToSign \/ SpeechToSign \/ Reencode \/ Recognize \/ Fail \/ Start
    \/ Write \/ Return \/ GetVideo

Spec == Init /\ [][Next]_vars

(* ------------------------------- claims -------------------------------- *)
\* The indices of text whose character satisfies P(character).
Where(text, P(_)) == {i \in 1..Len(text) : P(text[i])}

InTable(c) == Lower(c) \in DOMAIN sign_images

IsSpaceChar(c) == c = " "

\* The latest call that ended is a call of create_sign_video.
Composed == req.kind = "compose" /\ args.called

\* No other call has started: the folder holds what it held at start-up
\* and what this call wrote.
Alone == nreq = 1

\* C1: whenever the text holds a character of the table and some codec
\* opens, create_sign_video succeeds and the frames it wrote are 3 per space
\* plus 6 per character whose lower-case form is in the table, and nothing
\* for any other character, whichever character is last; with the table
\* {a, b} the text "ab" gives 12 frames.  The file of a call that ran alone
\* holds exactly these frames.
C1_FrameCount ==
    (/\ Composed
     /\ args.opens # {}
     /\ \E i \in 1..Len(args.text) : args.text[i] \in DOMAIN sign_images)
    => /\ resp.csv.ok
       /\ resp.csv.filename \in DOMAIN files
       /\ Len(resp.csv.frames)
            = 3 * Cardinality(Where(args.text, IsSpaceChar))
              + 6 * Cardinality(Where(args.text, InTable))
       /\ Alone => files[resp.csv.filename] = resp.csv.frames
       /\ (args.text = <<"a", "b">> /\ DOMAIN sign_images = {"a", "b"})
            => Len(resp.csv.frames) = 12

C1_Witness ==
    /\ Composed
    /\ Alone
    /\ args.text = <<"a", "b">>
    /\ DOMAIN sign_images = {"a", "b"}
    /\ resp.csv.ok
    /\ Len(files[resp.csv.filename]) = 12

\* C2: composing a text none of whose characters is in the table fails,
\* creates no output file and returns no name, with the table empty or not.
C2_UnsupportedFails ==
    (Composed /\ \A i \in 1..Len(args.text) : ~InTable(args.text[i]))
    => /\ ~resp.csv.ok
       /\ resp.csv.filename \notin DOMAIN files
       /\ Alone => files \in Folders

\* The text as the normalizer should leave it: the lower-cased characters
\* that are alphanumeric or whitespace, in their original order.
Kept(text) == {i \in 1..Len(text) : isalnum(Lower(text[i])) \/ isspace(Lower(text[i]))}

Nth(K, k) == CHOOSE i \in K : Cardinality({j \in K : j <= i}) = k

Expected(text) ==
    [k \in 1..Cardinality(Kept(text)) |-> Lower(text[Nth(Kept(text), k)])]

Blank(s) == \A k \in 1..Len(s) : isspace(s[k])

\* C8 as stated: the normalized text is the lower-cased input without the
\* characters that are neither alphanumeric nor whitespace, in order, and
\* the call fails with 'No valid characters in text' exactly when that text
\* is empty after trimming.
C8_Original ==
    Composed =>
      /\ (DOMAIN sign_images # {} => resp.csv.clean = Expected(args.text))
      /\ (resp.csv.error = "No valid characters in text") <=> Blank(Expected(args.text))

\* C8 amended: as C8_Original, but the call fails with 'No valid characters
\* in text' exactly when the table is not empty and the normalized text is
\* empty after trimming (an empty table fails first, with 'Sign images not
\* loaded').
C8_Normalize ==
    Composed =>
      /\ (DOMAIN sign_images # {} => resp.csv.clean = Expected(args.text))
      /\ (resp.csv.error = "No valid characters in text")
           <=> (DOMAIN sign_images # {} /\ Blank(Expected(args.text)))
      /\ (DOMAIN sign_images = {}) => resp.csv.error = "Sign images not loaded"

C8_Witness ==
    /\ Composed
    /\ args.text = <<"A", "!">>
    /\ resp.csv.clean = <<"a">>
    /\ resp.csv.ok

\* The log of a call that reached the codec loop.
ReachedLoop ==
    /\ Composed
    /\ resp.csv.error \notin {"Sign images not loaded", "No valid characters in text"}

Attempts(log) == SelectSeq(log, LAMBDA e : e.ev \in {"opened", "failed"})

\* C9: the codecs are tried in the order avc1, H264, X264, mp4v; the one
\* used is the first of them that opens and no codec is tried after it;
\* each writer that failed to open is released before the next attempt; the
\* call fails with 'Could not create video file with any codec' exactly
\* when none opens, and then no frame is written.
C9_CodecOrder ==
    ReachedLoop =>
      LET order == <<"avc1", "H264", "X264", "mp4v">>
          log == resp.csv.log
          tried == Attempts(log)
          working == {k \in 1..4 : order[k] \in args.opens}
      IN  /\ Len(tried) <= 4
          /\ \A k \in 1..Len(tried) : tried[k].codec = order[k]
          /\ \A k \in 1..Len(tried) :
               tried[k].ev = "opened" <=> (k \in working /\ \A j \in working : k <= j)
          /\ (working # {}) => tried[Len(tried)].ev = "opened"
          /\ (working = {}) => Len(tried) = 4
          /\ \A p \in 1..Len(log) :
               log[p].ev = "failed"
               => (p < Len(log) /\ log[p + 1] = [ev |-> "release", codec |-> log[p].codec])
          /\ (resp.csv.error = "Could not create video file with any codec")
               <=> (working = {})
          /\ (working = {})
               => /\ ~resp.csv.ok
                  /\ resp.csv.frames = <<>>
                  /\ Alone => files \in Folders
          /\ (working # {}) => resp.csv.ok

C9_Witness ==
    /\ ReachedLoop
    /\ args.opens = {"X264", "mp4v"}
    /\ resp.csv.ok
    /\ Len(Attempts(resp.csv.log)) = 3

\* The frames a known character c should give.
Full(c) == [sign |-> c, label |-> Upper(c), weight |-> 2]

Half(c) == [sign |-> c, label |-> Upper(c), weight |-> 1]

Dark == [sign |-> "", label |-> "", weight |-> 0]

WithFadeOut(c) == <<Dark, Half(c), Full(c), Full(c), Full(c), Half(c)>>

WithHold(c) == <<Dark, Half(c), Full(c), Full(c), Full(c), Full(c)>>

Known(clean) == {k \in 1..Len(clean) : clean[k] \in DOMAIN sign_images}

\* The number of frames written before the character at position k.
Offset(clean, k) ==
    3 * Cardinality({j \in 1..(k - 1) : clean[j] = " "})
    + 6 * Cardinality({j \in Known(clean) : j < k})

Segment(frames, from, n) == [x \in 1..n |-> frames[from + x]]

\* The frames of a successful call are, character by character in text
\* order: 3 black frames for a space; for a known character 2 fade-in
\* frames (weights 0 and 1/2), 2 full labeled frames and then either 2
\* fade-out frames (weights 1 and 1/2) or, when Ending(clean, k), 2 more
\* full frames; nothing else.
FramesAre(Ending(_, _)) ==
    LET clean == resp.csv.clean
        frames == resp.csv.frames
    IN  /\ Len(frames) = Offset(clean, Len(clean) + 1)
        /\ \A k \in 1..Len(clean) :
             /\ clean[k] = " "
                  => Segment(frames, Offset(clean, k), 3) = <<Dark, Dark, Dark>>
             /\ k \in Known(clean)
                  => Segment(frames, Offset(clean, k), 6)
                       = IF Ending(clean, k) THEN WithHold(clean[k])
                         ELSE WithFadeOut(clean[k])

IsFinalKnown(clean, k) == \A j \in Known(clean) : j <= k

IsLastChar(clean, k) == k = Len(clean)

\* C10 as stated: the fade-out is replaced by 2 full frames for the final
\* known character of the text.
C10_Original == (Composed /\ resp.csv.ok) => FramesAre(IsFinalKnown)

\* C10 amended: the fade-out is replaced by 2 full frames for a known
\* character that is the last character of the normalized text (a known
\* character followed only by spaces or unknown characters fades out), so
\* the last frame of a video whose normalized text ends on a known
\* character is the unfaded labeled image.
C10_FrameOrder ==
    (Composed /\ resp.csv.ok) =>
      /\ FramesAre(IsLastChar)
      /\ LET clean == resp.csv.clean
         IN  clean[Len(clean)] \in DOMAIN sign_images
             => resp.csv.frames[Len(resp.csv.frames)] = Full(clean[Len(clean)])

C10_Witness ==
    /\ Composed
    /\ resp.csv.ok
    /\ DOMAIN sign_images = {"a", "b"}
    /\ resp.csv.clean = <<"a", "b">>
    /\ Len(resp.csv.frames) = 12
    /\ files[resp.csv.filename] = WithFadeOut("a") \o WithHold("b")

(* ---------------------- claims about the server ------------------------ *)
\* C3: after a speech-to-sign request has finished, whatever its outcome,
\* neither its uploaded temporary file nor its '_fixed.wav' file remains on
\* disk: every temporary file belongs to a request still in progress.
C3_NoTempFileRemains == \A p \in tmpfiles : \E th \in threads : th.id = p.id

\* The body's text is missing or blank.
TextMissing(data) ==
    \/ ~data.has_text
    \/ (data.text.type = "str" /\ Blank(data.text.val))

\* C4: for every JSON-object body the text-to-sign handler itself produces
\* the response: 400 'Text is required' exactly when the text is missing or
\* blank, 500 with the error message exactly when composition fails, and
\* 200 with the file name and the text otherwise; no exception leaves the
\* handler unconverted.
C4_HandlerAnswers ==
    req.kind = "text" =>
      /\ resp.handled
      /\ resp.status \in {200, 400, 500}
      /\ (resp.status = 400) <=> TextMissing(req.data)
      /\ (resp.status = 400) => resp.detail = "Text is required"
      /\ (resp.status = 500) <=> (resp.composed /\ ~resp.csv.ok)
      /\ (resp.status = 500) => resp.detail = resp.csv.error
      /\ (resp.status = 200)
           => (resp.composed /\ resp.csv.ok /\ resp.video_file = resp.csv.filename)

\* C5: any two successful compositions return distinct file names and each
\* file holds the frames of its own composition, so both stay retrievable.
C5_DistinctFiles ==
    /\ \A i, j \in 1..Len(history) :
         i # j => history[i].filename # history[j].filename
    /\ \A i \in 1..Len(history) :
         /\ history[i].filename \in DOMAIN files
         /\ files[history[i].filename] = history[i].frames
         /\ get_video(history[i].filename, files).status = 200

\* The calls that have ended.
Answered == nreq - Cardinality(threads)

\* What the environment decides about transcription, read off the request.
TranscriptionFails(env) ==
    env.decode # "ok" \/ env.read # "ok" \/ env.recog # "ok"

HeardNothing(env) == Blank(env.heard)

\* C6: speech-to-sign answers 500 with a message when the upload or the
\* transcription fails, when the transcribed text is empty ('No speech
\* detected') and when composition fails; in the first two cases
\* create_sign_video is not invoked and the output folder is unchanged; it
\* answers 200 with the file and the text only when transcription and then
\* composition succeeded.
C6_SpeechOutcome ==
    [][(req'.kind = "speech" /\ Answered' = Answered + 1) =>
         LET e == req'.env
             r == resp'
             early == e.upload # "ok" \/ TranscriptionFails(e) \/ HeardNothing(e)
         IN  /\ r.handled
             /\ r.status \in {200, 500}
             /\ (r.status = 500) => r.detail # ""
             /\ early => /\ r.status = 500
                         /\ ~r.composed
                         /\ files' = files
                         /\ history' = history
             /\ (e.upload = "ok" /\ e.decode = "ok" /\ e.read = "ok")
                  => /\ (e.recog = "unknown") => r.detail = "Could not understand audio"
                     /\ (e.recog = "request_error")
                          => r.detail = "Google Speech Recognition error"
                     /\ (e.recog = "ok" /\ HeardNothing(e))
                          => r.detail = "No speech detected"
             /\ ~early => /\ r.composed
                          /\ r.stt = "ok"
                          /\ (r.status = 200) <=> r.csv.ok
                          /\ ~r.csv.ok => r.detail = r.csv.error
             /\ (r.status = 200)
                  => /\ ~early
                     /\ r.video_file = r.csv.filename
                     /\ r.video_file \in DOMAIN files'
                     /\ r.text # <<>>
                     /\ r.csv.clean = Expected(r.text)
       ]_vars

C6_Witness ==
    /\ req.kind = "speech"
    /\ req.env.recog = "unknown"
    /\ resp.status = 500
    /\ resp.detail = "Could not understand audio"
    /\ ~resp.composed

Returned == {history[i].filename : i \in 1..Len(history)}

\* C7: get_video answers 404 'Video not found' exactly when no file of that
\* name is in the output folder; a name no composition returned gives 404
\* (the videos of an earlier run count as returned); a file a composition
\* returned is never deleted or rewritten by a later step; and get_video
\* changes nothing.
C7_VideoLookup ==
    [][/\ (got' # NoResponse)
            => /\ (got'.status = 404) <=> (got'.text \notin DOMAIN files)
               /\ (got'.status = 404) => got'.detail = "Video not found"
               /\ (got'.status # 404) => (got'.status = 200 /\ got'.video_file = got'.text)
               /\ (got'.text \notin Returned \cup DOMAIN OldFolder) => got'.status = 404
               /\ UNCHANGED <<sign_images, files, tmpfiles, threads, history>>
       /\ \A n \in Returned : n \in DOMAIN files' /\ files'[n] = files[n]
      ]_vars

\* C11: after start-up no text-to-sign, speech-to-sign or video request,
\* whether it succeeds or fails, changes the sign-image table: its keys and
\* every stored image stay what load_sign_images produced, and the label of
\* a character is drawn on the request's copy, never on the stored image.
C11_TableImmutable ==
    [][/\ sign_images' = sign_images
       /\ DOMAIN sign_images' \subseteq {"a", "b"}
       /\ \A c \in DOMAIN sign_images' :
            sign_images'[c] = [sign |-> c, label |-> "", weight |-> 2]
      ]_vars

\* A request composed the labeled frames of "a" and the stored image of "a"
\* still carries no label.
C11_Witness ==
    /\ req.kind \in {"text", "speech"}
    /\ nreq = 2
    /\ resp.status = 200
    /\ \E k \in 1..Len(resp.csv.frames) :
         resp.csv.frames[k] = [sign |-> "a", label |-> "A", weight |-> 2]
    /\ "a" \in DOMAIN sign_images
    /\ sign_images["a"].label = ""

====
